---- MODULE Spec2Model ----
(***************************************************************************)
(* A model of flask-app/app.py: a Flask application with three routes      *)
(* ('/', '/health', '/api/info'), started by app.run on port 5000.         *)
(*                                                                         *)
(* The program's state is the process (not yet started, serving, exited),  *)
(* the process environment os.environ, the machine's host name, the route  *)
(* table built by the three @app.route decorators, and one slot per        *)
(* connection holding the request in flight and the response built for it. *)
(* The development server started by app.run handles every connection in   *)
(* a thread of its own, so the steps of different connections interleave.  *)
(***************************************************************************)
EXTENDS Naturals, Sequences, FiniteSets, TLC

VARIABLES proc, port_in_use, exit_code, stderr, environ, hostname, url_map, conn

vars == <<proc, port_in_use, exit_code, stderr, environ, hostname, url_map, conn>>

(***************************************************************************)
(* Bounds and the small sets the inputs are drawn from.                    *)
(***************************************************************************)
NumConns == 2

Conns == 1..NumConns

\* Request methods: the three the routes answer and one they do not.
Methods == {"GET", "HEAD", "OPTIONS", "POST"}

\* A path is the sequence of its segments, the text between its slashes:
\* "/" is <<"">>, "/api/info" is <<"api", "info">>, "/api//info" is
\* <<"api", "", "info">>.
Root == <<"">>

HealthPath == <<"health">>

InfoPath == <<"api", "info">>

\* Request paths: the three routes, one path no rule matches, and a route
\* written with a repeated slash.
Paths == {Root, HealthPath, InfoPath, <<"nope">>, <<"api", "", "info">>}

\* Values ENVIRONMENT is set to; the empty string is a value, not "unset".
EnvValues == {"staging", ""}

HostNames == {"web-1", "web-2"}

(***************************************************************************)
(* os.environ: a mapping from variable names to values.                    *)
(***************************************************************************)
NoEnviron == [k \in {} |-> ""]

Environs == {NoEnviron} \cup {[ENVIRONMENT |-> v] : v \in EnvValues}

\* os.getenv(key, default): os.environ.get(key, default)
getenv(env, key, default) == IF key \in DOMAIN env THEN env[key] ELSE default

(***************************************************************************)
(* Responses.                                                              *)
(***************************************************************************)
EmptyBody == [k \in {} |-> ""]

NoResp ==
    [status |-> 0, mimetype |-> "", allow |-> {}, location |-> <<>>,
     body |-> EmptyBody]

\* jsonify(obj): a response of status 200 and mimetype application/json
jsonify(obj) ==
    [status |-> 200, mimetype |-> "application/json", allow |-> {},
     location |-> <<>>, body |-> obj]

\* a view's return value (response, status): the response with that status
with_status(rv, status) == [rv EXCEPT !.status = status]

\* The routing layer's answer to a path no rule matches.
NotFound ==
    [status |-> 404, mimetype |-> "text/html", allow |-> {}, location |-> <<>>,
     body |-> [title |-> "404 Not Found"]]

\* The routing layer's answer to a method the matched rule does not list.
MethodNotAllowed(valid) ==
    [status |-> 405, mimetype |-> "text/html", allow |-> valid, location |-> <<>>,
     body |-> [title |-> "405 Method Not Allowed"]]

\* The automatic answer to OPTIONS on a rule: the rule's methods, no body.
default_options_response(valid) ==
    [status |-> 200, mimetype |-> "text/html", allow |-> valid, location |-> <<>>,
     body |-> EmptyBody]

\* The routing layer's answer to a path that is a rule's once its repeated
\* slashes are merged: a permanent redirect to the rule's path.
RequestRedirect(new_path) ==
    [status |-> 308, mimetype |-> "text/html", allow |-> {}, location |-> new_path,
     body |-> [title |-> "Redirecting..."]]

\* A response to HEAD is sent with the headers of the GET response and no body.
finalize(method, rv) == IF method = "HEAD" THEN [rv EXCEPT !.body = EmptyBody] ELSE rv

(***************************************************************************)
(* The route table.  @app.route(rule) with no methods argument registers   *)
(* the rule for GET; the routing layer adds HEAD to a rule that lists GET, *)
(* and the application adds OPTIONS (automatic options).                   *)
(***************************************************************************)
\* A faulty variant: the rule registered with methods=['GET', 'POST'].
route_with_post(rule, endpoint) ==
    [rule |-> rule, endpoint |-> endpoint,
     methods |-> {"GET", "HEAD", "OPTIONS", "POST"}]

route(rule, endpoint) ==
    [rule |-> rule, endpoint |-> endpoint, methods |-> {"GET", "HEAD", "OPTIONS"}]

RouteTable ==
    {route(Root, "home"), route(HealthPath, "health"), route(InfoPath, "info")}

\* A faulty variant: the rule '/' registered as a catch-all, matching every path no
\* other rule matches.
Matching_catch_all(map, path) ==
    LET exact == {r \in map : r.rule = path}
    IN  IF exact = {} THEN {r \in map : r.rule = Root} ELSE exact

\* The rules of the table whose pattern is the path (the rules have no
\* parameters and no trailing slash, so a rule matches exactly its own text).
Matching(map, path) == {r \in map : r.rule = path}

\* The path with every run of slashes replaced by one slash: the empty
\* segments go, except a last one (a trailing slash stays).
RECURSIVE merge_slashes(_)
merge_slashes(path) ==
    IF Len(path) <= 1 THEN path
    ELSE IF Head(path) = "" THEN merge_slashes(Tail(path))
    ELSE <<Head(path)>> \o merge_slashes(Tail(path))

(***************************************************************************)
(* The three view functions, as functions of what they read.               *)
(***************************************************************************)
\* A faulty variant: the host name taken from an environment variable HOSTNAME that
\* is not set, with a default.
home_rv_default_host(host) ==
    jsonify([message |-> "Hello from Flask Demo!", hostname |-> "localhost",
             version |-> "1.0.0"])

home_rv(host) ==
    jsonify([message |-> "Hello from Flask Demo!", hostname |-> host,
             version |-> "1.0.0"])

\* A faulty variant: the health payload carries the version as well.
health_rv_with_version ==
    with_status(jsonify([status |-> "healthy", version |-> "1.0.0"]), 200)

health_rv == with_status(jsonify([status |-> "healthy"]), 200)

\* A faulty variant: os.getenv('ENVIRONMENT') or 'production', which replaces an
\* empty value by the default too.
info_rv_or_default(env, host) ==
    jsonify([app |-> "Flask Demo Container",
             environment |-> IF getenv(env, "ENVIRONMENT", "") = ""
                             THEN "production" ELSE getenv(env, "ENVIRONMENT", ""),
             hostname |-> host])

info_rv(env, host) ==
    jsonify([app |-> "Flask Demo Container",
             environment |-> getenv(env, "ENVIRONMENT", "production"),
             hostname |-> host])

(***************************************************************************)
(* Connections.                                                            *)
(***************************************************************************)
Idle == [pc |-> "idle", method |-> "", path |-> <<>>, endpoint |-> "", resp |-> NoResp]

Init ==
    /\ proc = "init"
    /\ port_in_use \in BOOLEAN
    /\ exit_code = 0
    /\ stderr = ""
    /\ environ \in Environs
    /\ hostname \in HostNames
    /\ url_map = RouteTable
    /\ conn = [c \in Conns |-> Idle]

(***************************************************************************)
(* app.run(host='0.0.0.0', port=5000, debug=False): bind the port and      *)
(* serve; when the bind fails the server prints the error and the process  *)
(* exits with status 1.                                                    *)
(***************************************************************************)
\* A faulty variant: the bind error is swallowed and the process goes on to serve.
run_ignoring_bind_error ==
    /\ proc = "init"
    /\ proc' = "serving"
    /\ UNCHANGED <<port_in_use, exit_code, stderr, environ, hostname, url_map, conn>>

run ==
    /\ proc = "init"
    /\ IF port_in_use
       THEN /\ proc' = "exited"
            /\ exit_code' = 1
            /\ stderr' = "Address already in use"
       ELSE /\ proc' = "serving"
            /\ UNCHANGED <<exit_code, stderr>>
    /\ UNCHANGED <<port_in_use, environ, hostname, url_map, conn>>

(***************************************************************************)
(* A request arrives on an idle connection.                                *)
(***************************************************************************)
Receive(c) ==
    /\ proc = "serving"
    /\ conn[c].pc = "idle"
    /\ \E m \in Methods, p \in Paths :
         conn' = [conn EXCEPT ![c] = [Idle EXCEPT !.pc = "received",
                                                  !.method = m, !.path = p]]
    /\ UNCHANGED <<proc, port_in_use, exit_code, stderr, environ, hostname, url_map>>

(***************************************************************************)
(* Routing.  A rule for the path: 405 when the rule does not list the      *)
(* method, the automatic answer to OPTIONS, otherwise the rule's view       *)
(* function is the one to call.  No rule for the path: the path is tried    *)
(* again with its repeated slashes merged; a rule for the merged path gives *)
(* a redirect to it (405 when the rule does not list the method), and no    *)
(* rule gives 404.                                                          *)
(***************************************************************************)
dispatch_request(map, method, path) ==
    LET rules == Matching(map, path)
        merged == Matching(map, merge_slashes(path))
    IN  IF rules # {}
        THEN LET r == CHOOSE x \in rules : TRUE
             IN  IF method \notin r.methods
                 THEN [endpoint |-> "", resp |-> MethodNotAllowed(r.methods)]
                 ELSE IF method = "OPTIONS"
                 THEN [endpoint |-> "", resp |-> default_options_response(r.methods)]
                 ELSE [endpoint |-> r.endpoint, resp |-> NoResp]
        ELSE IF merged # {}
        THEN LET r == CHOOSE x \in merged : TRUE
             IN  IF method \notin r.methods
                 THEN [endpoint |-> "", resp |-> MethodNotAllowed(r.methods)]
                 ELSE [endpoint |-> "", resp |-> RequestRedirect(r.rule)]
        ELSE [endpoint |-> "", resp |-> NotFound]

\* A faulty variant: the request being routed is kept in one place shared by all
\* connections, so a request received meanwhile on another connection
\* replaces it.
Dispatch_shared_request(c) ==
    /\ proc = "serving"
    /\ conn[c].pc = "received"
    /\ LET others == {x \in Conns \ {c} : conn[x].pc = "received"}
           rq == IF others = {} THEN conn[c] ELSE conn[CHOOSE x \in others : TRUE]
           d == dispatch_request(url_map, rq.method, rq.path)
       IN  conn' = [conn EXCEPT ![c].pc = IF d.endpoint = "" THEN "responded" ELSE "routed",
                                ![c].endpoint = d.endpoint,
                                ![c].resp = d.resp]
    /\ UNCHANGED <<proc, port_in_use, exit_code, stderr, environ, hostname, url_map>>

Dispatch(c) ==
    /\ proc = "serving"
    /\ conn[c].pc = "received"
    /\ LET d == dispatch_request(url_map, conn[c].method, conn[c].path)
       IN  conn' = [conn EXCEPT ![c].pc = IF d.endpoint = "" THEN "responded" ELSE "routed",
                                ![c].endpoint = d.endpoint,
                                ![c].resp = d.resp]
    /\ UNCHANGED <<proc, port_in_use, exit_code, stderr, environ, hostname, url_map>>

(***************************************************************************)
(* The view functions, each run for a request routed to it.                *)
(***************************************************************************)
home(c) ==
    /\ proc = "serving"
    /\ conn[c].pc = "routed"
    /\ conn[c].endpoint = "home"
    /\ conn' = [conn EXCEPT ![c].pc = "responded",
                            ![c].resp = finalize(conn[c].method, home_rv(hostname))]
    /\ UNCHANGED <<proc, port_in_use, exit_code, stderr, environ, hostname, url_map>>

health(c) ==
    /\ proc = "serving"
    /\ conn[c].pc = "routed"
    /\ conn[c].endpoint = "health"
    /\ conn' = [conn EXCEPT ![c].pc = "responded",
                            ![c].resp = finalize(conn[c].method, health_rv)]
    /\ UNCHANGED <<proc, port_in_use, exit_code, stderr, environ, hostname, url_map>>

\* A faulty variant: os.environ.pop('ENVIRONMENT', 'production'): the variable is read
\* and removed.
info_pop(c) ==
    /\ proc = "serving"
    /\ conn[c].pc = "routed"
    /\ conn[c].endpoint = "info"
    /\ conn' = [conn EXCEPT ![c].pc = "responded",
                            ![c].resp = finalize(conn[c].method, info_rv(environ, hostname))]
    /\ environ' = NoEnviron
    /\ UNCHANGED <<proc, port_in_use, exit_code, stderr, hostname, url_map>>

\* A faulty variant: os.environ.setdefault('ENVIRONMENT', 'production'): the default is
\* written into the environment when the variable is unset.
info_setdefault(c) ==
    /\ proc = "serving"
    /\ conn[c].pc = "routed"
    /\ conn[c].endpoint = "info"
    /\ conn' = [conn EXCEPT ![c].pc = "responded",
                            ![c].resp = finalize(conn[c].method, info_rv(environ, hostname))]
    /\ environ' = IF environ = NoEnviron THEN [ENVIRONMENT |-> "production"] ELSE environ
    /\ UNCHANGED <<proc, port_in_use, exit_code, stderr, hostname, url_map>>

\* A faulty variant: a memoised view: while a response to GET /api/info is still held,
\* it is the one returned.
info_memoized(c) ==
    /\ proc = "serving"
    /\ conn[c].pc = "routed"
    /\ conn[c].endpoint = "info"
    /\ LET held == {x \in Conns : /\ conn[x].pc = "responded"
                                  /\ conn[x].method = "GET"
                                  /\ conn[x].path = InfoPath}
           rv == IF held = {} THEN info_rv(environ, hostname)
                 ELSE conn[CHOOSE x \in held : TRUE].resp
       IN  conn' = [conn EXCEPT ![c].pc = "responded",
                                ![c].resp = finalize(conn[c].method, rv)]
    /\ UNCHANGED <<proc, port_in_use, exit_code, stderr, environ, hostname, url_map>>

info(c) ==
    /\ proc = "serving"
    /\ conn[c].pc = "routed"
    /\ conn[c].endpoint = "info"
    /\ conn' = [conn EXCEPT ![c].pc = "responded",
                            ![c].resp = finalize(conn[c].method, info_rv(environ, hostname))]
    /\ UNCHANGED <<proc, port_in_use, exit_code, stderr, environ, hostname, url_map>>

(***************************************************************************)
(* The response is sent and the connection is free for the next request.   *)
(***************************************************************************)
Send(c) ==
    /\ proc = "serving"
    /\ conn[c].pc = "responded"
    /\ conn' = [conn EXCEPT ![c] = Idle]
    /\ UNCHANGED <<proc, port_in_use, exit_code, stderr, environ, hostname, url_map>>

(***************************************************************************)
(* The world around the handlers: os.environ is assigned or cleared, and   *)
(* the machine is renamed.  Nothing in app.py does either.                 *)
(***************************************************************************)
SetEnviron ==
    /\ proc # "exited"
    /\ \E e \in Environs \ {environ} : environ' = e
    /\ UNCHANGED <<proc, port_in_use, exit_code, stderr, hostname, url_map, conn>>

SetHostname ==
    /\ proc # "exited"
    /\ \E h \in HostNames \ {hostname} : hostname' = h
    /\ UNCHANGED <<proc, port_in_use, exit_code, stderr, environ, url_map, conn>>

Serve ==
    \E c \in Conns :
        \/ Receive(c)
        \/ Dispatch(c)
        \/ home(c)
        \/ health(c)
        \/ info(c)
        \/ Send(c)

Next == run \/ Serve \/ SetEnviron \/ SetHostname

Spec == Init /\ [][Next]_vars

\* The same program while nothing around it assigns os.environ or renames
\* the machine: ENVIRONMENT and the host name keep their initial values.
NextFixed == run \/ Serve

SpecFixed == Init /\ [][NextFixed]_vars

(***************************************************************************)
(* What a request gets when it is the only one handled: routing, then the  *)
(* view the rule names, run on the environment and host name as they are.  *)
(***************************************************************************)
view_rv(endpoint, env, host) ==
    CASE endpoint = "home" -> home_rv(host)
      [] endpoint = "health" -> health_rv
      [] endpoint = "info" -> info_rv(env, host)

full_dispatch_request(map, method, path, env, host) ==
    LET d == dispatch_request(map, method, path)
    IN  IF d.endpoint = "" THEN d.resp
        ELSE finalize(method, view_rv(d.endpoint, env, host))

(***************************************************************************)
(* Vocabulary of the properties.                                           *)
(***************************************************************************)
DefinedPaths == {Root, HealthPath, InfoPath}

\* The step in which connection c's request for path p with method m gets
\* its response.
Answers(c, m, p) ==
    /\ conn[c].pc \in {"received", "routed"}
    /\ conn'[c].pc = "responded"
    /\ conn[c].method = m
    /\ conn[c].path = p

\* Connection c holds the response to its request for path p with method m.
Holds(c, m, p) ==
    /\ conn[c].pc = "responded"
    /\ conn[c].method = m
    /\ conn[c].path = p

\* The keys of the three handlers' payloads.
PayloadKeys == {"message", "hostname", "version", "status", "app", "environment"}

(***************************************************************************)
(* C1: every GET /api/info is answered 200 with exactly the object         *)
(* {app: "Flask Demo Container", environment: E, hostname: H}, H the host  *)
(* name when the handler runs and E the value of ENVIRONMENT then, or      *)
(* "production" when it is unset; and no response to GET /api/info is      *)
(* built in any other step.                                                *)
(***************************************************************************)
C1_InfoResponse ==
    [][\A c \in Conns :
         Answers(c, "GET", InfoPath) =>
           /\ conn[c].pc = "routed"
           /\ conn'[c].resp.status = 200
           /\ conn'[c].resp.body =
                [app |-> "Flask Demo Container",
                 environment |-> IF "ENVIRONMENT" \in DOMAIN environ
                                 THEN environ["ENVIRONMENT"] ELSE "production",
                 hostname |-> hostname]]_vars

\* ENVIRONMENT=staging: a response to GET /api/info that says "staging" and
\* names the host.
C1_Witness ==
    /\ \E c \in Conns :
         /\ Holds(c, "GET", InfoPath)
         /\ conn[c].resp.body.environment = "staging"
         /\ conn[c].resp.body.hostname = hostname
    /\ environ = [ENVIRONMENT |-> "staging"]

(***************************************************************************)
(* C2: every GET / is answered 200 with exactly the object {message:       *)
(* "Hello from Flask Demo!", hostname: H, version: "1.0.0"}, H the host    *)
(* name when the handler runs, whatever ENVIRONMENT is and whatever was    *)
(* requested before.                                                       *)
(***************************************************************************)
C2_HomeResponse ==
    [][\A c \in Conns :
         Answers(c, "GET", Root) =>
           /\ conn[c].pc = "routed"
           /\ conn'[c].resp.status = 200
           /\ conn'[c].resp.body =
                [message |-> "Hello from Flask Demo!", hostname |-> hostname,
                 version |-> "1.0.0"]]_vars

\* A GET / answered on one connection while another connection holds the
\* response to an earlier request, with ENVIRONMENT set.
C2_Witness ==
    \E c, d \in Conns :
        /\ c # d
        /\ Holds(c, "GET", Root)
        /\ conn[c].resp.body.hostname = "web-2"
        /\ conn[d].pc = "responded"
        /\ "ENVIRONMENT" \in DOMAIN environ

(***************************************************************************)
(* C3: in every reachable state, the response held for a GET /health has   *)
(* status 200 and the body {"status": "healthy"}, with no other key.       *)
(***************************************************************************)
C3_HealthResponse ==
    \A c \in Conns :
        Holds(c, "GET", HealthPath) =>
          /\ conn[c].resp.status = 200
          /\ DOMAIN conn[c].resp.body = {"status"}
          /\ conn[c].resp.body.status = "healthy"

C3_Witness ==
    \E c \in Conns :
        /\ Holds(c, "GET", HealthPath)
        /\ environ = [ENVIRONMENT |-> ""]
        /\ hostname = "web-2"

C5_NonGetIs405 ==
    \A c \in Conns :
        (conn[c].pc = "responded" /\ conn[c].path \in DefinedPaths
                                  /\ conn[c].method # "GET") =>
          conn[c].resp.status = 405

(***************************************************************************)
(* C5, amended: on each of the three routes a request whose method is none *)
(* of GET, HEAD and OPTIONS is never routed to the handler and is answered *)
(* 405 (not 404), not with the handler's payload; HEAD is answered 200     *)
(* with no body, and OPTIONS is answered 200 with no body without the      *)
(* handler being run.                                                      *)
(***************************************************************************)
C5_UnlistedMethodIs405 ==
    \A c \in Conns :
        (conn[c].pc # "idle" /\ conn[c].path \in DefinedPaths) =>
          /\ conn[c].method \notin {"GET", "HEAD", "OPTIONS"} =>
               /\ conn[c].pc \in {"received", "responded"}
               /\ conn[c].endpoint = ""
               /\ conn[c].pc = "responded" =>
                    /\ conn[c].resp.status = 405
                    /\ conn[c].resp.mimetype # "application/json"
                    /\ DOMAIN conn[c].resp.body \cap PayloadKeys = {}
          /\ (conn[c].method = "HEAD" /\ conn[c].pc = "responded") =>
               /\ conn[c].resp.status = 200
               /\ conn[c].resp.body = EmptyBody
          /\ conn[c].method = "OPTIONS" =>
               /\ conn[c].pc \in {"received", "responded"}
               /\ conn[c].endpoint = ""
               /\ conn[c].pc = "responded" =>
                    /\ conn[c].resp.status = 200
                    /\ conn[c].resp.body = EmptyBody

C5_Witness ==
    \E c, d \in Conns :
        /\ Holds(c, "POST", HealthPath)
        /\ Holds(d, "HEAD", HealthPath)

(***************************************************************************)
(* C6: while nothing changes ENVIRONMENT or the host name, any two         *)
(* responses to GET on the same route are the same response (status and    *)
(* payload), whatever was requested on any connection between the two.     *)
(* Checked under SpecFixed; a connection keeps holding its response while  *)
(* the others receive, answer and send any number of requests.             *)
(***************************************************************************)
C6_Idempotent ==
    \A c, d \in Conns :
        \A p \in DefinedPaths :
            (Holds(c, "GET", p) /\ Holds(d, "GET", p)) =>
              conn[c].resp = conn[d].resp

\* Two connections hold the responses to GET /api/info, ENVIRONMENT set.
C6_Witness ==
    \E c, d \in Conns :
        /\ c # d
        /\ Holds(c, "GET", InfoPath)
        /\ Holds(d, "GET", InfoPath)
        /\ environ = [ENVIRONMENT |-> "staging"]

(***************************************************************************)
(* C7: when port 5000 is in use the process never serves: once app.run has *)
(* been called the process has exited with a non-zero status and a message *)
(* on stderr, and no connection ever holds a request or a response.        *)
(***************************************************************************)
C7_BindFailureAborts ==
    /\ port_in_use =>
         /\ proc \in {"init", "exited"}
         /\ \A c \in Conns : conn[c] = Idle
    /\ proc = "exited" =>
         /\ port_in_use
         /\ exit_code # 0
         /\ stderr # ""

C7_Witness == port_in_use /\ proc = "exited"

(***************************************************************************)
(* C8: the environment field of every response to GET /api/info is the     *)
(* value ENVIRONMENT has in the step in which the handler runs (or         *)
(* "production" when it is unset in that step), whatever it was when the   *)
(* process started and whatever earlier responses said.                    *)
(***************************************************************************)
C8_EnvironmentReadPerRequest ==
    [][\A c \in Conns :
         Answers(c, "GET", InfoPath) =>
           conn'[c].resp.body.environment =
             (IF environ = NoEnviron THEN "production" ELSE environ.ENVIRONMENT)]_vars

\* ENVIRONMENT changed between two requests: one connection still holds the
\* response that says "staging", the other the response that says
\* "production", built after ENVIRONMENT was unset.
C8_Witness ==
    \E c, d \in Conns :
        /\ Holds(c, "GET", InfoPath)
        /\ Holds(d, "GET", InfoPath)
        /\ conn[c].resp.body.environment = "staging"
        /\ conn[d].resp.body.environment = "production"
        /\ environ = NoEnviron

(***************************************************************************)
(* C9: no step of handling a request (receiving it, routing it, running a  *)
(* handler, answering 404 or 405, sending the response) changes            *)
(* os.environ, the host name or the route table.                           *)
(***************************************************************************)
C9_HandlersWriteNothing ==
    [][conn' # conn =>
         /\ environ' = environ
         /\ hostname' = hostname
         /\ url_map' = url_map]_vars

\* A handler has run for one request and the routing layer has refused
\* another.
C9_Witness ==
    \E c, d \in Conns :
        /\ Holds(c, "GET", InfoPath)
        /\ conn[c].resp.status = 200
        /\ conn[d].pc = "responded"
        /\ conn[d].resp.status \in {404, 405}
        /\ url_map = RouteTable

(***************************************************************************)
(* C10: with ENVIRONMENT and the host name fixed, under every interleaving *)
(* of the connections' steps, the response a connection holds is the one   *)
(* its request gets when handled alone.  Checked under SpecFixed.          *)
(***************************************************************************)
C10_NoInterference ==
    \A c \in Conns :
        conn[c].pc = "responded" =>
          conn[c].resp =
            full_dispatch_request(url_map, conn[c].method, conn[c].path,
                                  environ, hostname)

\* Two different requests in flight at once, both answered.
C10_Witness ==
    \E c, d \in Conns :
        /\ Holds(c, "GET", InfoPath)
        /\ Holds(d, "POST", Root)

====
